---- MODULE Spec2Model ----
(***************************************************************************)
(* Model of the EthConnector contract (evm-fungible-token/src/lib.rs and   *)
(* connector/prover.rs): proof intake, the verify-then-finish callback     *)
(* protocol and the replay guard.                                          *)
(*                                                                         *)
(* Text (account ids, hex addresses) is a sequence of one-character        *)
(* strings; byte strings are sequences of numbers 0..255.                  *)
(* Balances are counted in units of 10^20 yoctoNEAR so that they fit the   *)
(* model checker's integers; BalanceBits is the width kept for Balance.    *)
(***************************************************************************)
EXTENDS Integers, Sequences, FiniteSets, TLC

VARIABLES
    state_exists,           \* env::state_exists(): the contract struct is stored
    prover_account,         \* EthConnector.prover_account
    eth_custodian_address,  \* EthConnector.eth_custodian_address
    used_events,            \* EthConnector.used_events
    overflow_checks,        \* build profile: does u128 subtraction panic on underflow
    deposits,               \* promises created by deposit: verify_log_entry.then(finish_deposit),
                            \* each with the deposits of its proof finished before it, and its outcome
    mints,                  \* ext_bridge_token::mint calls dispatched so far
    last                    \* the most recent call: entry point, arguments, outcome

vars == <<state_exists, prover_account, eth_custodian_address, used_events,
          overflow_checks, deposits, mints, last>>

----------------------------------------------------------------------------
(* Bounds *)

MaxDeposits == 2        \* promises deposit creates per behaviour
BalanceBits == 4        \* width of Balance in the model (u128 in the code)
EntryBytes == 3         \* storage bytes one used_events entry takes

----------------------------------------------------------------------------
(* Text and bytes *)

Rep(c, n) == [i \in 1..n |-> c]

HexLower == <<"0","1","2","3","4","5","6","7","8","9","a","b","c","d","e","f">>
HexUpper == <<"0","1","2","3","4","5","6","7","8","9","A","B","C","D","E","F">>

HexChars == {HexLower[i] : i \in 1..16} \cup {HexUpper[i] : i \in 1..16}

\* the value of a hex digit, either case
HexValue == [c \in HexChars |-> (CHOOSE i \in 1..16 : HexLower[i] = c \/ HexUpper[i] = c) - 1]

IsHexChar(c) == c \in HexChars

HexVal(c) == HexValue[c]

\* the lower-case form of a character
LowerOf == [c \in HexChars |-> HexLower[HexValue[c] + 1]]

\* hex::decode: Err on odd length or on a non-hex character
hex_decode(text) ==
    IF Len(text) % 2 # 0 \/ \E i \in 1..Len(text) : ~IsHexChar(text[i])
    THEN [ok |-> FALSE, bytes |-> <<>>]
    ELSE [ok |-> TRUE,
          bytes |-> [i \in 1..(Len(text) \div 2) |->
                        16 * HexVal(text[2*i - 1]) + HexVal(text[2*i])]]

\* str::to_lowercase on the characters the model uses
to_lowercase(text) ==
    [i \in 1..Len(text) |-> IF text[i] \in HexChars THEN LowerOf[text[i]] ELSE text[i]]

NoPanic == "none"
PanicBadHex == "ETH address should be a valid hex string."
PanicBadLen == "ETH address should be 20 bytes long"
PanicAssertSelf == "assertion failed: predecessor_account_id == current_account_id"
PanicNotVerified == "Failed to verify the proof"
PanicProofExists == "Event cannot be reused for depositing. Proof already exist."
PanicSubOverflow == "attempt to subtract with overflow"
PanicCustodian == "Event's address does not match custodian address"
PanicInitialized == "Already initialized"
PanicDefault == "Fun token should be initialized before usage"
PanicDisabled == "Native NEP21 on Ethereum is disabled."
PanicSubAccount == "Only sub accounts of EthConnector can call this method."
PanicRlp == "Invalid RLP"
PanicParseLog == "Failed to parse event log"
PanicCallback == "Callback computation 0 was not successful"

ETH_ADDRESS_LEN == 20

validate_eth_address_unchecked(address) ==
    LET d == hex_decode(address) IN
    IF ~d.ok THEN [panic |-> PanicBadHex, result |-> <<>>]
    ELSE [panic |-> NoPanic, result |-> d.bytes]

validate_eth_address(address) ==
    LET d == hex_decode(address) IN
    IF ~d.ok THEN [panic |-> PanicBadHex, result |-> <<>>]
    ELSE IF Len(d.bytes) # ETH_ADDRESS_LEN THEN [panic |-> PanicBadLen, result |-> <<>>]
    ELSE [panic |-> NoPanic, result |-> d.bytes]

----------------------------------------------------------------------------
(* Accounts and constants of the contract *)

current_account_id == <<"e", "c">>                \* env::current_account_id()
ProverId == <<"p", "r">>
Alice == <<"a", "l">>

STORAGE_PRICE_PER_BYTE == 1     \* 10^20 yoctoNEAR, the unit of Balance here
NO_DEPOSIT == 0

BalanceMod == 2 ^ BalanceBits

CustodianHex == Rep("1", 40)
OtherHex == Rep("1", 38) \o <<"1", "2">>          \* last byte differs
ShortHex == Rep("1", 38)
NotHex == Rep("g", 40)
TokenHex == Rep("A", 40)

AddrOf(text) == hex_decode(text).bytes

----------------------------------------------------------------------------
(* Proof and event decoding *)

\* A raw log entry is the RLP list (address, topics, data); the model keeps
\* the list structure and the address bytes.  The payload of the locked event
\* is (amount, recipient).
LogEntryData(address, amount, recipient) == <<address, <<"Locked">>, <<amount, recipient>>>>

ForeignLog == LogEntryData(AddrOf(OtherHex), 5, Alice)
BrokenRlp == <<AddrOf(CustodianHex)>>
BrokenEvent == <<AddrOf(CustodianHex), <<>>, <<5>>>>

\* struct Proof
MkProof(log_index, log_entry_data, receipt_index, header_data) ==
    [log_index |-> log_index, log_entry_data |-> log_entry_data,
     receipt_index |-> receipt_index, receipt_data |-> <<1>>,
     header_data |-> header_data, proof |-> << <<2>> >>]

P1 == MkProof(0, LogEntryData(AddrOf(CustodianHex), 5, Alice), 0, <<9>>)
P2 == MkProof(1, LogEntryData(AddrOf(CustodianHex), 5, Alice), 0, <<9>>)
PForeign == MkProof(0, ForeignLog, 0, <<9>>)
PBrokenRlp == MkProof(0, BrokenRlp, 0, <<9>>)
PBrokenEvent == MkProof(0, BrokenEvent, 0, <<9>>)

\* EthEvent::from_log_entry_data: rlp::decode to LogEntry, then parse_log
EthEvent_from_log_entry_data(data) ==
    IF Len(data) # 3 \/ Len(data[1]) # ETH_ADDRESS_LEN
    THEN [panic |-> PanicRlp, eth_custodian_address |-> <<>>, log |-> <<>>]
    ELSE IF Len(data[2]) # 1 \/ Len(data[3]) # 2
    THEN [panic |-> PanicParseLog, eth_custodian_address |-> <<>>, log |-> <<>>]
    ELSE [panic |-> NoPanic, eth_custodian_address |-> data[1], log |-> data[3]]

\* EthLockedEvent::from_log_entry_data: the locked event's fields out of the log
EthLockedEvent_from_log_entry_data(data) ==
    LET e == EthEvent_from_log_entry_data(data) IN
    IF e.panic # NoPanic
    THEN [panic |-> e.panic, eth_custodian_address |-> <<>>, recipient |-> <<>>, amount |-> 0]
    ELSE [panic |-> NoPanic, eth_custodian_address |-> e.eth_custodian_address,
          recipient |-> e.log[2], amount |-> e.log[1]]

----------------------------------------------------------------------------
(* Replay guard *)

RECURSIVE le_bytes(_, _)
\* u64::try_to_vec (borsh): 8 bytes, little endian
le_bytes(n, k) == IF k = 0 THEN <<>> ELSE <<n % 256>> \o le_bytes(n \div 256, k - 1)

\* the pre-image without receipt_index
proof_data_without_receipt(proof) ==
    le_bytes(proof.log_index, 8) \o proof.header_data

\* the pre-image hashed by record_proof
proof_data(proof) ==
    le_bytes(proof.log_index, 8) \o le_bytes(proof.receipt_index, 8) \o proof.header_data

\* env::sha256, taken as injective: the digest stands for its pre-image
sha256(data) == <<"sha256", data>>

proof_key(proof) == sha256(proof_data(proof))

\* env::storage_usage() as a function of the set's size
storage_usage(used) == EntryBytes * Cardinality(used)

assert_self_always(predecessor) == TRUE

\* assert_self: does the assertion hold
assert_self(predecessor) == predecessor = current_account_id

\* record_proof without the membership test before the insert
record_proof_unchecked(used, predecessor, proof, attached_deposit, checks) ==
    IF ~assert_self(predecessor)
    THEN [panic |-> PanicAssertSelf, used |-> used, result |-> 0]
    ELSE
    LET initial_storage == storage_usage(used)
        key == sha256(proof_data(proof))
        inserted == used \cup {key}
        current_storage == storage_usage(inserted)
        required_deposit == (current_storage - initial_storage) * STORAGE_PRICE_PER_BYTE
    IN  IF attached_deposit < required_deposit /\ checks
        THEN [panic |-> PanicSubOverflow, used |-> inserted, result |-> 0]
        ELSE [panic |-> NoPanic, used |-> inserted,
              result |-> (attached_deposit - required_deposit) % BalanceMod]

\* record_proof: used is self.used_events on entry; the result carries the
\* set as the call leaves it, also when it panics after the insert.
record_proof(used, predecessor, proof, attached_deposit, checks) ==
    IF ~assert_self(predecessor)
    THEN [panic |-> PanicAssertSelf, used |-> used, result |-> 0]
    ELSE
    LET initial_storage == storage_usage(used)
        key == sha256(proof_data(proof))
    IN  IF key \in used
        THEN [panic |-> PanicProofExists, used |-> used, result |-> 0]
        ELSE
        LET inserted == used \cup {key}
            current_storage == storage_usage(inserted)
            required_deposit == (current_storage - initial_storage) * STORAGE_PRICE_PER_BYTE
        IN  IF attached_deposit < required_deposit /\ checks
            THEN [panic |-> PanicSubOverflow, used |-> inserted, result |-> 0]
            ELSE [panic |-> NoPanic, used |-> inserted,
                  result |-> (attached_deposit - required_deposit) % BalanceMod]

\* get_bridge_token_account_id
get_bridge_token_account_id(address) ==
    LET lower == to_lowercase(address)
        v == validate_eth_address(lower)
    IN  IF v.panic # NoPanic
        THEN [panic |-> v.panic, result |-> <<>>]
        ELSE [panic |-> NoPanic, result |-> lower \o <<".">> \o current_account_id]

\* the body of finish_deposit without the replay guard, minting to a fixed token account
finish_deposit_unguarded(used, predecessor, verification_success, new_owner_id, amount, proof, attached_deposit, checks) ==
    IF ~assert_self(predecessor)
    THEN [panic |-> PanicAssertSelf, used |-> used, mint |-> {}]
    ELSE IF ~verification_success
    THEN [panic |-> PanicNotVerified, used |-> used, mint |-> {}]
    ELSE [panic |-> NoPanic, used |-> used,
          mint |-> {[receiver |-> to_lowercase(TokenHex) \o <<".">> \o current_account_id,
                     account_id |-> new_owner_id,
                     amount |-> amount, deposit |-> NO_DEPOSIT]}]

\* the body of finish_deposit without the check of verification_success
finish_deposit_unverified(used, predecessor, verification_success, new_owner_id, amount, proof, attached_deposit, checks) ==
    IF ~assert_self(predecessor)
    THEN [panic |-> PanicAssertSelf, used |-> used, mint |-> {}]
    ELSE
    LET rp == record_proof(used, predecessor, proof, attached_deposit, checks) IN
    IF rp.panic # NoPanic
    THEN [panic |-> rp.panic, used |-> rp.used, mint |-> {}]
    ELSE
    LET token == <<>>
        account == get_bridge_token_account_id(token)
    IN  IF account.panic # NoPanic
        THEN [panic |-> account.panic, used |-> rp.used, mint |-> {}]
        ELSE [panic |-> NoPanic, used |-> rp.used,
              mint |-> {[receiver |-> account.result, account_id |-> new_owner_id,
                         amount |-> amount, deposit |-> NO_DEPOSIT]}]

\* the body of finish_deposit: the panic it ends with (or none), used_events
\* as the body leaves it, and the mint promise it creates
finish_deposit(used, predecessor, verification_success, new_owner_id, amount, proof, attached_deposit, checks) ==
    IF ~assert_self(predecessor)
    THEN [panic |-> PanicAssertSelf, used |-> used, mint |-> {}]
    ELSE IF ~verification_success
    THEN [panic |-> PanicNotVerified, used |-> used, mint |-> {}]
    ELSE
    LET rp == record_proof(used, predecessor, proof, attached_deposit, checks) IN
    IF rp.panic # NoPanic
    THEN [panic |-> rp.panic, used |-> rp.used, mint |-> {}]
    ELSE
    LET token == <<>>
        account == get_bridge_token_account_id(token)
    IN  IF account.panic # NoPanic
        THEN [panic |-> account.panic, used |-> rp.used, mint |-> {}]
        ELSE [panic |-> NoPanic, used |-> rp.used,
              mint |-> {[receiver |-> account.result, account_id |-> new_owner_id,
                         amount |-> amount, deposit |-> NO_DEPOSIT]}]

commit_always(before, after, panic) == after

\* a call's writes to contract storage are kept only when the call does not panic
commit(before, after, panic) == IF panic = NoPanic THEN after ELSE before

----------------------------------------------------------------------------
(* Entry points *)

TokenAccount == to_lowercase(TokenHex) \o <<".">> \o current_account_id

RequiredDeposit == EntryBytes * STORAGE_PRICE_PER_BYTE

\* the (proof, attached deposit) pairs deposit is called with
DepositInputs == { <<P1, RequiredDeposit - 1>>, <<P1, RequiredDeposit>>,
                   <<P2, RequiredDeposit>>,
                   <<PForeign, RequiredDeposit>>, <<PBrokenRlp, RequiredDeposit>>,
                   <<PBrokenEvent, RequiredDeposit>> }

\* the address texts new is called with
NewInputs == {CustodianHex, ShortHex, NotHex}

\* the record kept of a call
Call(op, predecessor, panic, id, verification, proofs, attached, before, body, mint, verify) ==
    [op |-> op, predecessor |-> predecessor, panic |-> panic, id |-> id,
     verification |-> verification, proof |-> proofs, attached |-> attached,
     used_before |-> before, used_body |-> body, mint |-> mint, verify |-> verify,
     args |-> <<>>, returned |-> <<>>]

\* new without the check that no state exists yet
new_reinit(exists, prover, address) ==
    LET v == validate_eth_address(address) IN
    [panic |-> v.panic, custodian |-> v.result]

\* EthConnector::new
new(exists, prover, address) ==
    IF exists THEN [panic |-> PanicInitialized, custodian |-> <<>>]
    ELSE LET v == validate_eth_address(address) IN
         [panic |-> v.panic, custodian |-> v.result]

New(caller, prover, address) ==
    LET r == new(state_exists, prover, address) IN
    /\ state_exists' = commit(state_exists, TRUE, r.panic)
    /\ prover_account' = commit(prover_account, prover, r.panic)
    /\ eth_custodian_address' = commit(eth_custodian_address, r.custodian, r.panic)
    /\ used_events' = commit(used_events, {}, r.panic)
    /\ last' = Call("new", caller, r.panic, 0, "none", {}, 0, used_events, used_events, {}, {})
    /\ UNCHANGED <<overflow_checks, deposits, mints>>

\* deposit without the comparison of the event's address with the custodian address
deposit_any_custodian(exists, custodian, prover, proof, attached) ==
    IF ~exists THEN [panic |-> PanicDefault, promise |-> {}]
    ELSE
    LET event == EthLockedEvent_from_log_entry_data(proof.log_entry_data) IN
    IF event.panic # NoPanic THEN [panic |-> event.panic, promise |-> {}]
    ELSE [panic |-> NoPanic,
          promise |-> {[verify |-> [log_index |-> proof.log_index,
                                    log_entry_data |-> proof.log_entry_data,
                                    receipt_index |-> proof.receipt_index,
                                    receipt_data |-> proof.receipt_data,
                                    header_data |-> proof.header_data,
                                    proof |-> proof.proof,
                                    skip_bridge_call |-> FALSE,
                                    receiver |-> prover,
                                    deposit |-> NO_DEPOSIT],
                        new_owner_id |-> event.recipient,
                        amount |-> event.amount,
                        proof |-> proof,
                        attached |-> attached]}]

\* deposit that hands finish_deposit the proof without its header_data
deposit_rebuilt_proof(exists, custodian, prover, proof, attached) ==
    IF ~exists THEN [panic |-> PanicDefault, promise |-> {}]
    ELSE
    LET event == EthLockedEvent_from_log_entry_data(proof.log_entry_data) IN
    IF event.panic # NoPanic THEN [panic |-> event.panic, promise |-> {}]
    ELSE IF event.eth_custodian_address # custodian
    THEN [panic |-> PanicCustodian, promise |-> {}]
    ELSE [panic |-> NoPanic,
          promise |-> {[verify |-> [log_index |-> proof.log_index,
                                    log_entry_data |-> proof.log_entry_data,
                                    receipt_index |-> proof.receipt_index,
                                    receipt_data |-> proof.receipt_data,
                                    header_data |-> proof.header_data,
                                    proof |-> proof.proof,
                                    skip_bridge_call |-> FALSE,
                                    receiver |-> prover,
                                    deposit |-> NO_DEPOSIT],
                        new_owner_id |-> event.recipient,
                        amount |-> event.amount,
                        proof |-> [proof EXCEPT !.header_data = <<>>],
                        attached |-> attached]}]

\* deposit that looks the proof's fingerprint up in used_events first
deposit_deduplicated(exists, custodian, prover, proof, attached) ==
    IF ~exists THEN [panic |-> PanicDefault, promise |-> {}]
    ELSE IF proof_key(proof) \in used_events
    THEN [panic |-> PanicProofExists, promise |-> {}]
    ELSE
    LET event == EthLockedEvent_from_log_entry_data(proof.log_entry_data) IN
    IF event.panic # NoPanic THEN [panic |-> event.panic, promise |-> {}]
    ELSE IF event.eth_custodian_address # custodian
    THEN [panic |-> PanicCustodian, promise |-> {}]
    ELSE [panic |-> NoPanic,
          promise |-> {[verify |-> [log_index |-> proof.log_index,
                                    log_entry_data |-> proof.log_entry_data,
                                    receipt_index |-> proof.receipt_index,
                                    receipt_data |-> proof.receipt_data,
                                    header_data |-> proof.header_data,
                                    proof |-> proof.proof,
                                    skip_bridge_call |-> FALSE,
                                    receiver |-> prover,
                                    deposit |-> NO_DEPOSIT],
                        new_owner_id |-> event.recipient,
                        amount |-> event.amount,
                        proof |-> proof,
                        attached |-> attached]}]

\* the body of deposit: the panic it ends with (or none) and the promise
\* verify_log_entry(..).then(finish_deposit(..)) it creates
deposit(exists, custodian, prover, proof, attached) ==
    IF ~exists THEN [panic |-> PanicDefault, promise |-> {}]
    ELSE
    LET event == EthLockedEvent_from_log_entry_data(proof.log_entry_data) IN
    IF event.panic # NoPanic THEN [panic |-> event.panic, promise |-> {}]
    ELSE IF event.eth_custodian_address # custodian
    THEN [panic |-> PanicCustodian, promise |-> {}]
    ELSE [panic |-> NoPanic,
          promise |-> {[verify |-> [log_index |-> proof.log_index,
                                    log_entry_data |-> proof.log_entry_data,
                                    receipt_index |-> proof.receipt_index,
                                    receipt_data |-> proof.receipt_data,
                                    header_data |-> proof.header_data,
                                    proof |-> proof.proof,
                                    skip_bridge_call |-> FALSE,
                                    receiver |-> prover,
                                    deposit |-> NO_DEPOSIT],
                        new_owner_id |-> event.recipient,
                        amount |-> event.amount,
                        proof |-> proof,
                        attached |-> attached]}]

Deposit(caller, proof, attached) ==
    /\ Len(deposits) < MaxDeposits
    /\ LET r == deposit(state_exists, eth_custodian_address, prover_account, proof, attached)
           sent == commit({}, r.promise, r.panic)
       IN  /\ deposits' = IF sent = {} THEN deposits
                          ELSE Append(deposits,
                                      [promise |-> CHOOSE x \in sent : TRUE,
                                       prior |-> {j \in 1..Len(deposits) :
                                                    /\ deposits[j].status = "Done"
                                                    /\ deposits[j].promise.proof = proof},
                                       member |-> proof_key(proof) \in used_events,
                                       submitted |-> proof,
                                       status |-> "AwaitingVerification",
                                       verification |-> "none", panic |-> NoPanic])
           /\ last' = Call("deposit", caller, r.panic, IF sent = {} THEN 0 ELSE Len(deposits) + 1,
                           "none", {proof}, attached, used_events, used_events, {}, sent)
    /\ UNCHANGED <<state_exists, prover_account, eth_custodian_address, used_events,
                   overflow_checks, mints>>

\* the verifier's promise resolves and the finish_deposit callback of deposit i runs
FinishDeposit(i, result) ==
    /\ i \in 1..Len(deposits)
    /\ deposits[i].status = "AwaitingVerification"
    /\ LET d == deposits[i].promise
           r == IF result = "failed"
                THEN [panic |-> PanicCallback, used |-> used_events, mint |-> {}]
                ELSE finish_deposit(used_events, current_account_id, result = "true",
                                    d.new_owner_id, d.amount, d.proof, d.attached,
                                    overflow_checks)
           sent == commit({}, r.mint, r.panic)
       IN  /\ used_events' = commit(used_events, r.used, r.panic)
           /\ mints' = IF sent = {} THEN mints
                       ELSE Append(mints, [call |-> CHOOSE x \in sent : TRUE,
                                           key |-> proof_key(d.proof), id |-> i])
           /\ deposits' = [deposits EXCEPT ![i].status = "Done",
                                           ![i].verification = result,
                                           ![i].panic = r.panic]
           /\ last' = Call("finish_deposit", current_account_id, r.panic, i, result,
                           {d.proof}, d.attached, used_events, r.used, sent, {})
    /\ UNCHANGED <<state_exists, prover_account, eth_custodian_address, overflow_checks>>

\* finish_deposit called as the callback of a promise another account created
CallFinishDeposit(caller, verification_success, new_owner_id, amount, proof, attached) ==
    /\ caller # current_account_id
    /\ LET r == IF ~state_exists
                THEN [panic |-> PanicDefault, used |-> used_events, mint |-> {}]
                ELSE finish_deposit(used_events, caller, verification_success,
                                    new_owner_id, amount, proof, attached, overflow_checks)
           sent == commit({}, r.mint, r.panic)
       IN  /\ used_events' = commit(used_events, r.used, r.panic)
           /\ mints' = IF sent = {} THEN mints
                       ELSE Append(mints, [call |-> CHOOSE x \in sent : TRUE,
                                           key |-> proof_key(proof), id |-> 0])
           /\ last' = Call("finish_deposit", caller, r.panic, 0,
                           IF verification_success THEN "true" ELSE "false",
                           {proof}, attached, used_events, r.used, sent, {})
    /\ UNCHANGED <<state_exists, prover_account, eth_custodian_address, overflow_checks,
                   deposits>>

\* str::split(".") then parts[0]
first_part(text) ==
    IF \E i \in 1..Len(text) : text[i] = "."
    THEN SubSeq(text, 1, (CHOOSE i \in 1..Len(text) :
                            /\ text[i] = "."
                            /\ \A j \in 1..(i - 1) : text[j] # ".") - 1)
    ELSE text

\* finish_withdraw without the comparison of the caller with its sub-account name
finish_withdraw_any_caller(exists, predecessor, amount, recipient) ==
    IF ~exists THEN [panic |-> PanicDefault, result |-> <<>>]
    ELSE
    LET token_address == validate_eth_address(first_part(predecessor))
        recipient_address == validate_eth_address(recipient)
    IN  IF token_address.panic # NoPanic
        THEN [panic |-> token_address.panic, result |-> <<>>]
        ELSE IF recipient_address.panic # NoPanic
        THEN [panic |-> recipient_address.panic, result |-> <<>>]
        ELSE [panic |-> NoPanic,
              result |-> <<"Withdraw", amount, token_address.result,
                           recipient_address.result>>]

\* the body of finish_withdraw
finish_withdraw(exists, predecessor, amount, recipient) ==
    IF ~exists THEN [panic |-> PanicDefault, result |-> <<>>]
    ELSE
    LET token == predecessor
        part0 == first_part(token)
    IN  IF token # part0 \o <<".">> \o current_account_id
        THEN [panic |-> PanicSubAccount, result |-> <<>>]
        ELSE
        LET token_address == validate_eth_address(part0)
            recipient_address == validate_eth_address(recipient)
        IN  IF token_address.panic # NoPanic
            THEN [panic |-> token_address.panic, result |-> <<>>]
            ELSE IF recipient_address.panic # NoPanic
            THEN [panic |-> recipient_address.panic, result |-> <<>>]
            ELSE [panic |-> NoPanic,
                  result |-> <<"Withdraw", amount, token_address.result,
                               recipient_address.result>>]

FinishWithdraw(caller, amount, recipient) ==
    LET r == finish_withdraw(state_exists, caller, amount, recipient) IN
    /\ last' = [Call("finish_withdraw", caller, r.panic, 0, "none", {}, 0,
                     used_events, used_events, {}, {})
                  EXCEPT !.args = <<amount, recipient>>, !.returned = r.result]
    /\ UNCHANGED <<state_exists, prover_account, eth_custodian_address, used_events,
                   overflow_checks, deposits, mints>>

\* accounts that call finish_withdraw: a bridge token, a bridge token named in
\* lower case, sub-accounts whose first part is no address, accounts below or
\* beside a bridge token, another contract's sub-account, a user, the contract
WithdrawCallers ==
    { TokenAccount,
      Rep("a", 40) \o <<".">> \o current_account_id,
      NotHex \o <<".">> \o current_account_id,
      ShortHex \o <<".">> \o current_account_id,
      <<"x", ".">> \o TokenAccount,
      TokenHex \o <<".", "x", ".">> \o current_account_id,
      TokenHex \o <<".", "x">>,
      Alice,
      current_account_id }

WithdrawRecipients == {CustodianHex, TokenHex, ShortHex, NotHex}

legacy_enabled(exists) == IF ~exists THEN PanicDefault ELSE NoPanic

\* lock, finish_lock, unlock, finish_unlock: assert!(false, ..) comes first
disabled(exists) == IF ~exists THEN PanicDefault ELSE PanicDisabled

\* the body of lock
lock(exists, predecessor, amount, recipient) ==
    IF disabled(exists) # NoPanic THEN [panic |-> disabled(exists), promise |-> {}]
    ELSE
    LET address == validate_eth_address(recipient) IN
    IF address.panic # NoPanic THEN [panic |-> address.panic, promise |-> {}]
    ELSE [panic |-> NoPanic,
          promise |-> {[call |-> "transfer_from", owner |-> predecessor,
                        amount |-> amount, then |-> "finish_lock"]}]

\* the body of finish_lock; success is is_promise_success()
finish_lock(exists, predecessor, success) ==
    IF disabled(exists) # NoPanic THEN [panic |-> disabled(exists), promise |-> {}]
    ELSE IF ~assert_self(predecessor) THEN [panic |-> PanicAssertSelf, promise |-> {}]
    ELSE IF ~success THEN [panic |-> "assertion failed: is_promise_success()", promise |-> {}]
    ELSE [panic |-> NoPanic, promise |-> {}]

\* the body of unlock
unlock(exists, custodian, proof) ==
    IF disabled(exists) # NoPanic THEN [panic |-> disabled(exists), promise |-> {}]
    ELSE
    LET event == EthEvent_from_log_entry_data(proof.log_entry_data) IN
    IF event.panic # NoPanic THEN [panic |-> event.panic, promise |-> {}]
    ELSE IF event.eth_custodian_address # custodian
    THEN [panic |-> PanicCustodian, promise |-> {}]
    ELSE [panic |-> NoPanic,
          promise |-> {[call |-> "verify_log_entry", proof |-> proof,
                        then |-> "finish_unlock"]}]

\* the body of finish_unlock
finish_unlock(exists, used, predecessor, verification_success, proof, attached, checks) ==
    IF disabled(exists) # NoPanic
    THEN [panic |-> disabled(exists), used |-> used, promise |-> {}]
    ELSE IF ~assert_self(predecessor)
    THEN [panic |-> PanicAssertSelf, used |-> used, promise |-> {}]
    ELSE IF ~verification_success
    THEN [panic |-> PanicNotVerified, used |-> used, promise |-> {}]
    ELSE
    LET rp == record_proof(used, predecessor, proof, attached, checks) IN
    IF rp.panic # NoPanic THEN [panic |-> rp.panic, used |-> rp.used, promise |-> {}]
    ELSE [panic |-> NoPanic, used |-> rp.used,
          promise |-> {[call |-> "transfer", proof |-> proof]}]

Lock(caller) ==
    LET r == lock(state_exists, caller, 5, CustodianHex) IN
    /\ last' = Call("lock", caller, r.panic, 0, "none", {}, 0,
                    used_events, used_events, {}, commit({}, r.promise, r.panic))
    /\ UNCHANGED <<state_exists, prover_account, eth_custodian_address, used_events,
                   overflow_checks, deposits, mints>>

FinishLock(caller) ==
    LET r == finish_lock(state_exists, caller, TRUE) IN
    /\ last' = Call("finish_lock", caller, r.panic, 0, "none", {}, 0,
                    used_events, used_events, {}, commit({}, r.promise, r.panic))
    /\ UNCHANGED <<state_exists, prover_account, eth_custodian_address, used_events,
                   overflow_checks, deposits, mints>>

Unlock(caller, proof) ==
    LET r == unlock(state_exists, eth_custodian_address, proof) IN
    /\ last' = Call("unlock", caller, r.panic, 0, "none", {proof}, 0,
                    used_events, used_events, {}, commit({}, r.promise, r.panic))
    /\ UNCHANGED <<state_exists, prover_account, eth_custodian_address, used_events,
                   overflow_checks, deposits, mints>>

FinishUnlock(caller, proof) ==
    LET r == finish_unlock(state_exists, used_events, caller, TRUE, proof,
                           RequiredDeposit, overflow_checks)
    IN
    /\ used_events' = commit(used_events, r.used, r.panic)
    /\ last' = Call("finish_unlock", caller, r.panic, 0, "none", {proof}, RequiredDeposit,
                    used_events, r.used, {}, commit({}, r.promise, r.panic))
    /\ UNCHANGED <<state_exists, prover_account, eth_custodian_address,
                   overflow_checks, deposits, mints>>

----------------------------------------------------------------------------
(* The contract as deployed, before new is called *)

Init ==
    /\ state_exists = FALSE
    /\ prover_account = <<>>
    /\ eth_custodian_address = <<>>
    /\ used_events = {}
    /\ overflow_checks \in BOOLEAN
    /\ deposits = <<>>
    /\ mints = <<>>
    /\ last = Call("deploy", current_account_id, NoPanic, 0, "none", {}, 0, {}, {}, {}, {})

Next ==
    \/ \E a \in NewInputs : New(Alice, ProverId, a)
    \/ \E in \in DepositInputs : Deposit(Alice, in[1], in[2])
    \/ \E i \in 1..MaxDeposits, r \in {"true", "false", "failed"} : FinishDeposit(i, r)
    \/ \E v \in BOOLEAN, p \in {P1, P2} :
            CallFinishDeposit(Alice, v, Alice, 5, p, RequiredDeposit)
    \/ \E c \in {Alice, TokenAccount}, r \in {CustodianHex, NotHex} : FinishWithdraw(c, 5, r)
    \/ Lock(Alice)
    \/ FinishLock(current_account_id)
    \/ Unlock(Alice, P1)
    \/ FinishUnlock(current_account_id, P1)

Spec == Init /\ [][Next]_vars

\* the platform delivers the callback of every promise
FairSpec == Spec /\ \A i \in 1..MaxDeposits :
                        WF_vars(\E r \in {"true", "false", "failed"} : FinishDeposit(i, r))

\* record_proof over every replay set of the sample fingerprints: the
\* initialized contract with used_events as earlier credits would leave it
GuardInit ==
    /\ state_exists = TRUE
    /\ prover_account = ProverId
    /\ eth_custodian_address = AddrOf(CustodianHex)
    /\ used_events \in SUBSET {proof_key(P1), proof_key(P2)}
    /\ overflow_checks \in BOOLEAN
    /\ deposits = <<>>
    /\ mints = <<>>
    /\ last = Call("deploy", current_account_id, NoPanic, 0, "none", {}, 0,
                   used_events, used_events, {}, {})

GuardNext ==
    \/ \E in \in DepositInputs : Deposit(Alice, in[1], in[2])
    \/ \E i \in 1..MaxDeposits, r \in {"true", "false", "failed"} : FinishDeposit(i, r)
    \/ \E v \in BOOLEAN, p \in {P1, P2} :
            CallFinishDeposit(Alice, v, Alice, 5, p, RequiredDeposit)

GuardSpec == GuardInit /\ [][GuardNext]_vars

\* the contract as deployed, with the calls to new and finish_withdraw only
WithdrawNext ==
    \/ New(Alice, ProverId, CustodianHex)
    \/ \E c \in WithdrawCallers, amount \in {0, 5}, r \in WithdrawRecipients :
          FinishWithdraw(c, amount, r)

WithdrawSpec == Init /\ [][WithdrawNext]_vars

\* every entry point on the initialized contract whose used_events holds
\* earlier credits
PermNext ==
    \/ New(Alice, ProverId, CustodianHex)
    \/ \E p \in {P1, P2} : Deposit(Alice, p, RequiredDeposit)
    \/ \E i \in 1..MaxDeposits, r \in {"true", "false", "failed"} : FinishDeposit(i, r)
    \/ CallFinishDeposit(Alice, TRUE, Alice, 5, P2, RequiredDeposit)
    \/ FinishWithdraw(TokenAccount, 5, CustodianHex)
    \/ Lock(Alice)
    \/ FinishLock(current_account_id)
    \/ Unlock(Alice, P2)
    \/ FinishUnlock(current_account_id, P2)

PermSpec == GuardInit /\ [][PermNext]_vars

\* proofs that agree or differ in log_index, receipt_index, header_data and in
\* the fields that record_proof does not hash
KeyProofs ==
    { MkProof(l, d, r, h) :
        l \in {0, 1, 256}, d \in {LogEntryData(AddrOf(CustodianHex), 5, Alice), ForeignLog},
        r \in {0, 1}, h \in {<<>>, <<0>>, <<1>>} }

\* record_proof on its own: the initialized contract and the proofs to record
KeyInit ==
    /\ state_exists = TRUE
    /\ prover_account = ProverId
    /\ eth_custodian_address = AddrOf(CustodianHex)
    /\ used_events = {}
    /\ overflow_checks \in BOOLEAN
    /\ deposits = <<>>
    /\ mints = <<>>
    /\ \E p \in KeyProofs, q \in KeyProofs :
          last = Call("deploy", current_account_id, NoPanic, 0, "none", {p, q}, 0,
                      {}, {}, {}, {})

\* record_proof(p) and then record_proof(q), called by the contract itself
RecordProofs(p, q) ==
    LET first == record_proof(used_events, current_account_id, p, RequiredDeposit,
                              overflow_checks)
        second == record_proof(first.used, current_account_id, q, RequiredDeposit,
                               overflow_checks)
    IN  /\ last.op = "deploy"
        /\ last.proof = {p, q}
        /\ used_events' = second.used
        /\ last' = Call("record_proof", current_account_id, second.panic, 0, "none",
                        {p, q}, RequiredDeposit, first.used, second.used, {}, {})
        /\ UNCHANGED <<state_exists, prover_account, eth_custodian_address,
                       overflow_checks, deposits, mints>>

KeyNext == \E p \in KeyProofs, q \in KeyProofs : RecordProofs(p, q)

KeySpec == KeyInit /\ [][KeyNext]_vars

----------------------------------------------------------------------------
(* Properties *)

LastProof == CHOOSE p \in last.proof : TRUE
LastKey == proof_key(LastProof)
Inserted == last.used_body \ last.used_before

\* the last call was finish_deposit run as the continuation of a deposit
IsCallback == last.op = "finish_deposit" /\ last.id > 0

\* deposit j was finished with verification true and enough attached deposit
Creditable(j) ==
    /\ deposits[j].status = "Done"
    /\ deposits[j].verification = "true"
    /\ deposits[j].promise.attached >= RequiredDeposit

\* C1: no double credit: for any fingerprint at most one mint is ever
\* dispatched, whatever the interleaving of deposit and finish_deposit calls.
C1_NoDoubleCredit ==
    \A i, j \in 1..Len(mints) : mints[i].key = mints[j].key => i = j

\* two deposits of one fingerprint were in flight together and both callbacks delivered true
C1_Witness ==
    \E i, j \in 1..Len(deposits) :
        /\ i < j
        /\ proof_key(deposits[i].promise.proof) = proof_key(deposits[j].promise.proof)
        /\ Creditable(i) /\ Creditable(j)
        /\ i \notin deposits[j].prior

\* C2: a deposit of a proof with the configured custodian, enough attached
\* deposit and a fresh fingerprint, verified true, ends Credited: finish_deposit
\* completes, exactly one mint(recipient, amount) is dispatched and the
\* fingerprint is in used_events.
C2_SuccessfulDeposit ==
    (/\ IsCallback
     /\ last.verification = "true"
     /\ EthEvent_from_log_entry_data(LastProof.log_entry_data).eth_custodian_address
            = eth_custodian_address
     /\ last.attached >= RequiredDeposit
     /\ LastKey \notin last.used_before)
    => /\ last.panic = NoPanic
       /\ \E m \in last.mint :
            /\ last.mint = {m}
            /\ m.account_id = EthLockedEvent_from_log_entry_data(LastProof.log_entry_data).recipient
            /\ m.amount = EthLockedEvent_from_log_entry_data(LastProof.log_entry_data).amount
       /\ LastKey \in used_events

\* C3: a proof submitted again after a first submission of it was verified
\* true with enough deposit (credited), and verified true again, ends
\* ReplayRejected with no mint and used_events unchanged.
C3_ReplayRejected ==
    (/\ IsCallback
     /\ last.verification = "true"
     /\ \E j \in deposits[last.id].prior :
            /\ deposits[j].promise.proof = LastProof
            /\ Creditable(j))
    => /\ last.panic = PanicProofExists
       /\ last.mint = {}
       /\ used_events = last.used_before

\* C4: custodian gate: a deposit whose decoded custodian address differs from
\* the configured one fails with no verification request and no callback
\* scheduled and state unchanged; every request issued carries the configured
\* custodian address.
C4_CustodianGate ==
    /\ \A i \in 1..Len(deposits) :
          EthEvent_from_log_entry_data(deposits[i].promise.verify.log_entry_data)
              .eth_custodian_address = eth_custodian_address
    /\ (/\ last.op = "deposit"
        /\ EthEvent_from_log_entry_data(LastProof.log_entry_data).eth_custodian_address
              # eth_custodian_address)
       => /\ last.panic # NoPanic
          /\ last.verify = {}
          /\ last.id = 0
          /\ used_events = last.used_before

\* a deposit of a proof whose custodian differs in the last byte was rejected
C4_Witness ==
    /\ last.op = "deposit"
    /\ state_exists
    /\ LastProof = PForeign
    /\ last.panic = PanicCustodian

\* C5: authorization gate: finish_deposit called by any account other than the
\* contract fails on the identity check for every verification result and
\* proof, inserts no fingerprint and dispatches no mint.
C5_AuthorizationGate ==
    (last.op = "finish_deposit" /\ last.predecessor # current_account_id)
    => /\ last.panic # NoPanic
       /\ state_exists => last.panic = PanicAssertSelf
       /\ Inserted = {}
       /\ used_events = last.used_before
       /\ last.mint = {}

\* another account called finish_deposit with verification true
C5_Witness ==
    /\ last.op = "finish_deposit"
    /\ last.predecessor = Alice
    /\ last.verification = "true"
    /\ state_exists
    /\ last.panic = PanicAssertSelf

\* a deposit of the last call's fingerprint was credited
Credited(key) ==
    \E j \in 1..Len(deposits) :
        /\ j # last.id
        /\ deposits[j].status = "Done"
        /\ deposits[j].panic = NoPanic
        /\ proof_key(deposits[j].promise.proof) = key

\* C6: verification failure: a callback delivering false ends Rejected with
\* used_events unchanged and no mint, and a later deposit of the same proof
\* verified true is not rejected as a replay.
C6_VerificationFailure ==
    /\ (IsCallback /\ last.verification = "false")
       => /\ last.panic = PanicNotVerified
          /\ Inserted = {}
          /\ used_events = last.used_before
          /\ last.mint = {}
    /\ (/\ IsCallback
        /\ last.verification = "true"
        /\ ~Credited(LastKey)
        /\ \E j \in deposits[last.id].prior :
              /\ deposits[j].promise.proof = LastProof
              /\ deposits[j].verification = "false")
       => last.panic # PanicProofExists

\* a proof rejected by the verifier was deposited afresh and verified true
C6_Witness ==
    /\ IsCallback
    /\ last.verification = "true"
    /\ \E j \in deposits[last.id].prior :
          /\ deposits[j].promise.proof = LastProof
          /\ deposits[j].verification = "false"
          /\ deposits[j].panic = PanicNotVerified

\* C7: resource error: a finishing call whose attached deposit is below the
\* storage cost of the insert aborts, the fingerprint is not in used_events
\* and no mint is dispatched; the proof retried with enough funds is not
\* rejected as a replay.
C7_ResourceError ==
    /\ (/\ IsCallback
        /\ last.verification = "true"
        /\ LastKey \notin last.used_before
        /\ last.attached < RequiredDeposit)
       => /\ last.panic # NoPanic
          /\ LastKey \notin used_events
          /\ last.mint = {}
    /\ (/\ IsCallback
        /\ last.verification = "true"
        /\ last.attached >= RequiredDeposit
        /\ ~Credited(LastKey)
        /\ \E j \in deposits[last.id].prior :
              /\ deposits[j].promise.proof = LastProof
              /\ deposits[j].verification = "true"
              /\ deposits[j].promise.attached < RequiredDeposit)
       => last.panic # PanicProofExists

\* a verified deposit with too little attached, in a build whose subtraction wraps
C7_Witness ==
    /\ IsCallback
    /\ last.verification = "true"
    /\ last.attached < RequiredDeposit
    /\ ~overflow_checks
    /\ Inserted = {LastKey}
    /\ last.panic # NoPanic

\* C8: failure atomicity: a call to any entry point that fails leaves
\* used_events and the configuration as they were, also when finish_deposit
\* fails after record_proof inserted the fingerprint.
C8_FailureAtomicity ==
    [][last'.panic # NoPanic =>
          /\ used_events' = used_events
          /\ state_exists' = state_exists
          /\ prover_account' = prover_account
          /\ eth_custodian_address' = eth_custodian_address]_vars

\* finish_deposit failed after record_proof had inserted the fingerprint
C8_Witness ==
    /\ last.op = "finish_deposit"
    /\ last.panic # NoPanic
    /\ Inserted = {LastKey}
    /\ LastKey \notin used_events

\* C9: replay guard: record_proof on a fingerprint in used_events fails and
\* leaves the set unchanged; on a fingerprint not in it, it inserts exactly
\* that fingerprint; test and insert belong to the one finish_deposit call.
C9_CheckAndRecord ==
    (/\ last.op = "finish_deposit"
     /\ last.predecessor = current_account_id
     /\ last.verification = "true")
    => IF LastKey \in last.used_before
       THEN /\ last.panic = PanicProofExists
            /\ last.used_body = last.used_before
            /\ used_events = last.used_before
       ELSE /\ last.panic # PanicProofExists
            /\ last.used_body = last.used_before \cup {LastKey}
            /\ used_events \in {last.used_before, last.used_body}

\* record_proof refused a fingerprint that was in used_events
C9_Witness ==
    /\ IsCallback
    /\ last.verification = "true"
    /\ LastKey \in last.used_before
    /\ last.used_before # {LastKey}
    /\ last.panic = PanicProofExists

\* record_proof inserted a fingerprint into a set holding another one
C9_WitnessInsert ==
    /\ IsCallback
    /\ last.verification = "true"
    /\ last.used_before = {proof_key(P2)}
    /\ Inserted = {proof_key(P1)}

\* C10: every deposit that passed the custodian check and whose verification
\* callback was delivered ends in one of Credited, Rejected, ReplayRejected.
C10_TerminalStates ==
    \A i \in 1..Len(deposits) :
        (/\ deposits[i].status = "Done"
         /\ deposits[i].verification \in {"true", "false"}
         /\ deposits[i].promise.attached >= RequiredDeposit)
        => deposits[i].panic \in {NoPanic, PanicNotVerified, PanicProofExists}

\* under fair delivery of callbacks no deposit stays in AwaitingVerification
DepositsFinish ==
    \A i \in 1..MaxDeposits :
        (i \in 1..Len(deposits) /\ deposits[i].status = "AwaitingVerification")
            ~> (i \in 1..Len(deposits) /\ deposits[i].status = "Done")

\* hex text that decodes to exactly 20 bytes
WellFormedAddress(text) ==
    /\ Len(text) = 2 * ETH_ADDRESS_LEN
    /\ \A i \in 1..Len(text) : text[i] \in HexChars

\* C11: initialize once: new succeeds only when no state exists and the
\* address is hex text of exactly 20 bytes; a second new fails with 'Already
\* initialized' and leaves prover_account, eth_custodian_address and
\* used_events unchanged.
C11_InitializeOnce ==
    [][\A a \in NewInputs :
          New(Alice, ProverId, a) =>
            /\ (last'.panic = NoPanic) <=> (~state_exists /\ WellFormedAddress(a))
            /\ state_exists => last'.panic = PanicInitialized
            /\ last'.panic = NoPanic =>
                  /\ state_exists'
                  /\ prover_account' = ProverId
                  /\ eth_custodian_address' = AddrOf(a)
                  /\ used_events' = {}
            /\ last'.panic # NoPanic =>
                  UNCHANGED <<state_exists, prover_account, eth_custodian_address,
                              used_events>>]_vars

\* new was called on the initialized contract and refused
C11_Witness ==
    /\ last.op = "new"
    /\ last.panic = PanicInitialized
    /\ state_exists
    /\ eth_custodian_address = AddrOf(CustodianHex)

LegacyOps == {"lock", "finish_lock", "unlock", "finish_unlock"}

\* C12: legacy path disabled: every call to lock, finish_lock, unlock and
\* finish_unlock fails at once, before any external call is dispatched, with
\* used_events and the configuration unchanged.
C12_LegacyDisabled ==
    [][last'.op \in LegacyOps =>
          /\ last'.panic # NoPanic
          /\ state_exists => last'.panic = PanicDisabled
          /\ last'.verify = {}
          /\ last'.mint = {}
          /\ last'.used_body = last'.used_before
          /\ UNCHANGED <<state_exists, prover_account, eth_custodian_address,
                         used_events, deposits, mints>>]_vars

\* the contract itself called finish_unlock on the initialized contract
C12_Witness ==
    /\ last.op = "finish_unlock"
    /\ last.predecessor = current_account_id
    /\ state_exists
    /\ last.panic = PanicDisabled

\* the text before ".<current_account_id>" at the end of an account name
TokenPartOf(account) ==
    LET n == Len(account) - Len(current_account_id) - 1 IN
    IF n >= 0 /\ SubSeq(account, n + 1, Len(account)) = <<".">> \o current_account_id
    THEN SubSeq(account, 1, n)
    ELSE <<"?">>

\* C13: withdrawal authorization: finish_withdraw returns (Withdraw, amount,
\* token_address, recipient_address) exactly when the caller is
\* <token_address>.<current_account_id> with a 20-byte hex token address and the
\* recipient is a 20-byte hex address; otherwise it fails and returns nothing.
C13_WithdrawAuthorization ==
    last.op = "finish_withdraw" =>
        LET token == TokenPartOf(last.predecessor)
            authorized == /\ state_exists
                          /\ WellFormedAddress(token)
                          /\ last.predecessor = token \o <<".">> \o current_account_id
                          /\ WellFormedAddress(last.args[2])
        IN  /\ (last.panic = NoPanic) <=> authorized
            /\ last.panic = NoPanic =>
                  last.returned = <<"Withdraw", last.args[1], AddrOf(token),
                                    AddrOf(last.args[2])>>
            /\ last.panic # NoPanic => last.returned = <<>>

\* a bridge token account withdrew to a well-formed recipient
C13_Witness ==
    /\ last.op = "finish_withdraw"
    /\ last.predecessor = TokenAccount
    /\ last.panic = NoPanic
    /\ last.returned = <<"Withdraw", 5, AddrOf(TokenHex), AddrOf(CustodianHex)>>

\* the three fields of a proof that the replay key is meant to depend on
KeyFields(proof) == <<proof.log_index, proof.receipt_index, proof.header_data>>

\* C14: fingerprint determinism: two proofs get the same replay key exactly
\* when they agree on log_index, receipt_index and header_data, and
\* record_proof refuses the second proof exactly in that case.
C14_FingerprintDeterminism ==
    last.op = "record_proof" =>
        /\ \A p \in last.proof, q \in last.proof :
              (proof_key(p) = proof_key(q)) <=> (KeyFields(p) = KeyFields(q))
        /\ last.used_body = {proof_key(p) : p \in last.proof}
        /\ Cardinality(last.used_body) = Cardinality({KeyFields(p) : p \in last.proof})
        /\ (last.panic = PanicProofExists) <=>
              Cardinality({KeyFields(p) : p \in last.proof}) = 1
        /\ \A p \in last.proof :
              /\ Len(proof_data(p)) = 16 + Len(p.header_data)
              /\ SubSeq(proof_data(p), 17, Len(proof_data(p))) = p.header_data

\* two proofs that differ only in log_entry_data were recorded: one key
C14_Witness ==
    /\ last.op = "record_proof"
    /\ Cardinality(last.proof) = 2
    /\ Cardinality(last.used_body) = 1
    /\ last.panic = PanicProofExists

\* two proofs that differ only in receipt_index were recorded: two keys
C14_WitnessDistinct ==
    /\ last.op = "record_proof"
    /\ \E p \in last.proof, q \in last.proof :
          /\ p.receipt_index # q.receipt_index
          /\ p.log_index = q.log_index
          /\ p.header_data = q.header_data
    /\ Cardinality(last.used_body) = 2
    /\ last.panic = NoPanic

\* C15: permanent guard: used_events only grows; a fingerprint that is in
\* used_events stays in it under every call to every entry point.
C15_PermanentGuard == [][used_events \subseteq used_events']_vars

\* new was called on a contract that holds a fingerprint, and the fingerprint
\* is still there
C15_Witness ==
    /\ last.op = "new"
    /\ last.used_before = {proof_key(P1)}
    /\ used_events = {proof_key(P1)}

VerifierArgs(proof) ==
    <<proof.log_index, proof.log_entry_data, proof.receipt_index, proof.receipt_data,
      proof.header_data, proof.proof>>

\* C17: original-proof binding: the proof that a callback finish_deposit checks
\* and records is the proof that was passed to its deposit and sent to the
\* verifier, and the recipient and amount of the mint are those decoded from
\* that proof's log_entry_data when it was submitted.
C17_OriginalProofBinding ==
    /\ \A i \in 1..Len(deposits) :
          LET d == deposits[i]
              event == EthLockedEvent_from_log_entry_data(d.submitted.log_entry_data)
              v == d.promise.verify
          IN  /\ d.promise.proof = d.submitted
              /\ <<v.log_index, v.log_entry_data, v.receipt_index, v.receipt_data,
                   v.header_data, v.proof>> = VerifierArgs(d.submitted)
              /\ d.promise.new_owner_id = event.recipient
              /\ d.promise.amount = event.amount
    /\ IsCallback =>
          LET P == deposits[last.id].submitted
              event == EthLockedEvent_from_log_entry_data(P.log_entry_data)
          IN  /\ last.proof = {P}
              /\ last.used_body \subseteq last.used_before \cup {proof_key(P)}
              /\ last.panic = PanicProofExists => proof_key(P) \in last.used_before
              /\ (last.verification = "true" /\ proof_key(P) \notin last.used_before)
                    => last.used_body = last.used_before \cup {proof_key(P)}
              /\ \A mint \in last.mint :
                    mint.account_id = event.recipient /\ mint.amount = event.amount
    /\ \A k \in 1..Len(mints) :
          mints[k].id > 0 =>
             LET P == deposits[mints[k].id].submitted
                 event == EthLockedEvent_from_log_entry_data(P.log_entry_data)
             IN  /\ mints[k].key = proof_key(P)
                 /\ mints[k].call.account_id = event.recipient
                 /\ mints[k].call.amount = event.amount

\* the callback of a deposit of P2 looked up and inserted the fingerprint of P2
C17_Witness ==
    /\ IsCallback
    /\ last.verification = "true"
    /\ deposits[last.id].submitted = P2
    /\ proof_key(P2) \notin last.used_before
    /\ proof_key(P2) \in last.used_body

\* C18: verification is not deduplicated: a deposit whose log decodes and
\* names the custodian dispatches verify_log_entry and schedules finish_deposit
\* whether or not the proof's fingerprint is in used_events; deposit never
\* fails with the replay error.
C18_VerificationNotDeduplicated ==
    last.op = "deposit" =>
        LET event == EthLockedEvent_from_log_entry_data(LastProof.log_entry_data) IN
        /\ last.panic # PanicProofExists
        /\ last.used_body = last.used_before
        /\ (state_exists /\ event.panic = NoPanic
                /\ event.eth_custodian_address = eth_custodian_address) =>
              /\ last.panic = NoPanic
              /\ \E request \in last.verify :
                    /\ last.verify = {request}
                    /\ request.verify.receiver = prover_account
                    /\ request.verify.log_index = LastProof.log_index
                    /\ request.proof = LastProof
              /\ last.id = Len(deposits)
              /\ deposits[last.id].status = "AwaitingVerification"

\* a proof whose fingerprint is in used_events was deposited and its
\* verification was requested
C18_Witness ==
    /\ last.op = "deposit"
    /\ LastKey \in used_events
    /\ last.panic = NoPanic
    /\ last.verify # {}
    /\ deposits[last.id].status = "AwaitingVerification"

\* C19: frame of persistent state: once initialized, prover_account and
\* eth_custodian_address never change; used_events changes only in a
\* finish_deposit that succeeds; deposit, finish_withdraw and the legacy entry
\* points leave all persistent state as it was, whether they succeed or fail.
C19_Frame ==
    [][/\ state_exists =>
             UNCHANGED <<state_exists, prover_account, eth_custodian_address>>
       /\ used_events' # used_events =>
             last'.op = "finish_deposit" /\ last'.panic = NoPanic
       /\ last'.op \in {"deposit", "finish_withdraw"} \cup LegacyOps =>
             UNCHANGED <<state_exists, prover_account, eth_custodian_address,
                         used_events>>]_vars

\* on the initialized contract with a deposit in flight, a withdrawal succeeded
C19_Witness ==
    /\ last.op = "finish_withdraw"
    /\ last.panic = NoPanic
    /\ Len(deposits) >= 1
    /\ state_exists
    /\ prover_account = ProverId
    /\ eth_custodian_address = AddrOf(CustodianHex)

\* C20: credit/record correspondence: in every reachable state as many mint
\* calls have been dispatched as there are fingerprints in used_events, the
\* fingerprints are those of the minted proofs, and a call commits a
\* fingerprint exactly when it dispatches a mint.
C20_CreditRecordCorrespondence ==
    /\ Len(mints) = Cardinality(used_events)
    /\ {mints[k].key : k \in 1..Len(mints)} = used_events
    /\ last.op = "finish_deposit" => ((last.mint # {}) <=> (used_events # last.used_before))
    /\ last.op # "finish_deposit" => (last.mint = {} /\ used_events = last.used_before)

\* a verified callback inserted the fingerprint, dispatched no mint, and the
\* fingerprint is not in used_events
C20_Witness ==
    /\ IsCallback
    /\ last.verification = "true"
    /\ Inserted = {LastKey}
    /\ last.mint = {}
    /\ LastKey \notin used_events
    /\ mints = <<>>

====
